---- MODULE Spec2Model ----
(***************************************************************************)
(* Model of main.py: a batch utility that, for every selected video,       *)
(* selects an audio stream, extracts it to a temporary waveform,           *)
(* transcribes it to an SRT subtitle file and removes the waveform.        *)
(*                                                                         *)
(* Strings are sequences of one-character strings.  A float number of      *)
(* seconds is represented by the integer h with seconds * 1000.0 = h / 2   *)
(* (a count of half milliseconds), so that rounding has ties to decide.    *)
(***************************************************************************)
EXTENDS Integers, Sequences, FiniteSets, TLC

(* ------------------------------ bounds ------------------------------- *)
\* longest selection returned by the file dialog
MaxVideos == 2
\* most streams a probe reports for one file
MaxStreams == 2
\* most segments the speech model returns for one waveform
MaxSegments == 2
\* longest line the operator types at the prompt
MaxInputLen == 1
\* largest hour count of the timestamps given to the formatter alone
MaxHours == 100

(* ----------------------------- strings ------------------------------- *)
\* an optional value is a sequence of at most one element
None == << >>
Some(x) == <<x>>

\* the decimal digit characters, by value
DigitChars == <<"0", "1", "2", "3", "4", "5", "6", "7", "8", "9">>

IsDigit(c) == \E d \in 1..10 : DigitChars[d] = c

DigitVal(c) == (CHOOSE d \in 1..10 : DigitChars[d] = c) - 1

RECURSIVE Decimal(_)
\* str(n) for n >= 0
Decimal(n) ==
    IF n < 10 THEN <<DigitChars[n + 1]>>
    ELSE Decimal(n \div 10) \o <<DigitChars[(n % 10) + 1]>>

RECURSIVE Zeros(_)
Zeros(k) == IF k <= 0 THEN << >> ELSE <<"0">> \o Zeros(k - 1)

\* f"{n:0{w}d}": zero padding up to a MINIMUM width of w, sign first
FormatD(n, w) ==
    IF n >= 0 THEN Zeros(w - Len(Decimal(n))) \o Decimal(n)
    ELSE <<"-">> \o Zeros(w - 1 - Len(Decimal(-n))) \o Decimal(-n)

RECURSIVE DigitsValue(_)
\* the value of a non-empty run of digit characters
DigitsValue(s) ==
    IF Len(s) = 1 THEN DigitVal(s[1])
    ELSE 10 * DigitsValue(SubSeq(s, 1, Len(s) - 1)) + DigitVal(s[Len(s)])

(* ----------------------- format_srt_timestamp ------------------------ *)
\* round(h / 2): Python rounds a tie to the even neighbour
PyRound(h) ==
    IF h % 2 = 0 THEN h \div 2
    ELSE IF ((h - 1) \div 2) % 2 = 0 THEN (h - 1) \div 2 ELSE (h + 1) \div 2

AssertionError == <<"AssertionError">>

\* a slip: the minutes taken from the total, not from what the hours left
TimestampFieldsOfTotal(milliseconds) ==
    [hours   |-> milliseconds \div 3600000,
     minutes |-> milliseconds \div 60000,
     seconds |-> ((milliseconds % 3600000) % 60000) \div 1000,
     millis  |-> ((milliseconds % 3600000) % 60000) % 1000]

\* the four fields computed by lines 22-31 from the total milliseconds
TimestampFields(milliseconds) ==
    [hours   |-> milliseconds \div 3600000,
     minutes |-> (milliseconds % 3600000) \div 60000,
     seconds |-> ((milliseconds % 3600000) % 60000) \div 1000,
     millis  |-> ((milliseconds % 3600000) % 60000) % 1000]

\* a slip: the assertion made on the rounded milliseconds, not on seconds
format_srt_timestampOfRounded(h) ==
    IF ~(PyRound(h) >= 0) THEN AssertionError
    ELSE LET f == TimestampFields(PyRound(h))
         IN  FormatD(f.hours, 2) \o <<":">> \o FormatD(f.minutes, 2) \o <<":">>
             \o FormatD(f.seconds, 2) \o <<",">> \o FormatD(f.millis, 3)

\* lines 19-33: the assertion of line 21 (the interpreter runs with
\* assertions on, its default), then the fields and their format
format_srt_timestamp(h) ==
    IF ~(h >= 0) THEN AssertionError
    ELSE LET f == TimestampFields(PyRound(h))
         IN  FormatD(f.hours, 2) \o <<":">> \o FormatD(f.minutes, 2) \o <<":">>
             \o FormatD(f.seconds, 2) \o <<",">> \o FormatD(f.millis, 3)

(* ------------------------- str.strip and int ------------------------- *)
RECURSIVE LStrip(_)
LStrip(s) == IF s # << >> /\ Head(s) = " " THEN LStrip(Tail(s)) ELSE s

RECURSIVE RStrip(_)
RStrip(s) ==
    IF s # << >> /\ s[Len(s)] = " " THEN RStrip(SubSeq(s, 1, Len(s) - 1)) ELSE s

\* s.strip()
Strip(s) == RStrip(LStrip(s))

\* int(s): surrounding whitespace is dropped, one sign is allowed, the rest
\* must be a non-empty run of digits; anything else raises ValueError,
\* which is the answer None here
PyInt(s) ==
    LET t      == Strip(s)
        signed == t # << >> /\ t[1] \in {"-", "+"}
        body   == IF signed THEN Tail(t) ELSE t
    IN  IF body = << >> \/ \E k \in 1..Len(body) : ~IsDigit(body[k])
        THEN None
        ELSE IF signed /\ t[1] = "-" THEN Some(0 - DigitsValue(body))
             ELSE Some(DigitsValue(body))

(* ------------------------------- paths ------------------------------- *)
OUTPUT_DIR == <<"Z", ":", "\\", "T">>
MODEL_SIZE == "large-v3"
LANGUAGE == "ja"

Separators == {"/", "\\"}

\* the largest index of s holding a character of cs, 0 when there is none
LastIndexOf(s, cs) ==
    IF \E k \in 1..Len(s) : s[k] \in cs
    THEN CHOOSE k \in 1..Len(s) :
            s[k] \in cs /\ \A m \in (k + 1)..Len(s) : s[m] \notin cs
    ELSE 0

\* os.path.basename(p)
basename(p) == SubSeq(p, LastIndexOf(p, Separators) + 1, Len(p))

\* os.path.splitext(b)[0] for a name b without separators: cut at the last
\* dot unless only dots precede it
splitext_root(b) ==
    LET d == LastIndexOf(b, {"."})
    IN  IF d = 0 \/ \A k \in 1..(d - 1) : b[k] = "." THEN b
        ELSE SubSeq(b, 1, d - 1)

\* os.path.join(d, name)
join(d, name) == d \o <<"\\">> \o name

base_name(video_path) == splitext_root(basename(video_path))

temp_audio_path(video_path) ==
    join(OUTPUT_DIR, base_name(video_path) \o <<".", "w", "a", "v">>)

output_srt_path(video_path) ==
    join(OUTPUT_DIR, base_name(video_path) \o <<".", "s", "r", "t">>)

(* ---------------- what the collaborators can answer ------------------ *)
\* the files offered by the dialog: two share a base name
Videos ==
    { <<"a", "/", "x", ".", "m">>,
      <<"b", "/", "x", ".", "n">>,
      <<"a", "/", "y", ".", "m">> }

SeqsUpTo(S, n) == UNION { [1..k -> S] : k \in 0..n }

\* select_files(): any list of offered files; the dialog returns each
\* chosen file once
Selections ==
    { files \in SeqsUpTo(Videos, MaxVideos) :
        \A j, k \in 1..Len(files) : j # k => files[j] # files[k] }

\* a stream of the probe's answer is its 'codec_type', or NoKey when the
\* stream carries no such key
NoKey == "NoKey"
CodecTypes == {"audio", "video", NoKey}

\* ffmpeg.probe(video_path): the stream list, ffmpeg.Error (whose stderr
\* bytes are valid UTF-8 or not), or another exception (OSError when the
\* probe program cannot be started)
ProbeOutcomes ==
    [kind : {"ok"}, streams : SeqsUpTo(CodecTypes, MaxStreams), utf8 : {TRUE}]
    \cup [kind : {"ffmpeg.Error"}, streams : {<< >>}, utf8 : BOOLEAN]
    \cup [kind : {"OSError"}, streams : {<< >>}, utf8 : {TRUE}]

\* what the operator can type at the prompt; EOF is a closed stdin
InputChars == {"0", "1", "2", "3", "-"}
InputLines == SeqsUpTo(InputChars, MaxInputLen)

\* exit codes of the extraction subprocess
ReturnCodes == {0, 1}

\* the segments the speech model may return (start, end in half ms); one
\* starts before 0
Segments ==
    { [start |-> -1,   end |-> 0,    text |-> <<"c">>],
      [start |-> 0,    end |-> 2001, text |-> <<" ", "a">>],
      [start |-> 2001, end |-> 7200003, text |-> <<" ", "b", " ">>] }

\* model.transcribe(...)["segments"]: segments in the order of their times
ModelResults ==
    { r \in SeqsUpTo(Segments, MaxSegments) :
        \A k \in 1..(Len(r) - 1) : r[k].end <= r[k + 1].start }

(* ------------------------------- state ------------------------------- *)
VARIABLES
    pc,                 \* the statement main() is at
    selected_videos,    \* main: the list returned by select_files()
    model,              \* main: the loaded model, None before the load
    i,                  \* main: 1-based position of the for loop
    audio_stream_index, \* main: the last result of select_audio_stream
    audio_streams,      \* select_audio_stream: number of audio streams found
    line,               \* select_audio_stream: the line input() returned
    process,            \* extract_audio: the extraction subprocess
    result,             \* transcribe_and_save_srt: result["segments"]
    cue,                \* transcribe_and_save_srt: the enumerate counter
    fs,                 \* the files of OUTPUT_DIR: path -> file
    calls,              \* what the iteration of entry calls.entry invoked
    removed,            \* the entries whose waveform os.remove() deleted
    exc,                \* the exception that left main(), None if none did
    banner,             \* "All tasks completed!" has been printed
    ts_in,              \* the formatter on its own: its argument
    ts_out              \* the formatter on its own: its value

vars == <<pc, selected_videos, model, i, audio_stream_index, audio_streams,
          line, process, result, cue, fs, calls, removed, exc, banner,
          ts_in, ts_out>>

NoProcess == [state |-> "none", eof |-> FALSE, returncode |-> None]

\* a file: the list entry whose iteration wrote it (0: an earlier run), what
\* was written to it, and whether its writer finished it
File(by, kind, data, complete) ==
    [by |-> by, kind |-> kind, data |-> data, complete |-> complete]

Absent == File(0, "absent", << >>, FALSE)

NoCalls ==
    [entry |-> 0, probe |-> 0, found |-> -1, extract |-> 0, transcribe |-> 0, open |-> 0,
     remove |-> 0, selected |-> "unset", extracted |-> "unset",
     raised |-> "no", removed |-> "unset"]

\* a subtitle left in OUTPUT_DIR by an earlier run
StaleSrt == File(0, "srt", <<<<"o", "l", "d">>>>, TRUE)

\* every path main() derives for the offered files
Paths == { temp_audio_path(v) : v \in Videos }
         \cup { output_srt_path(v) : v \in Videos }

\* OUTPUT_DIR when the run starts: one subtitle is there already
InitialFiles ==
    [p \in Paths |->
        IF p = output_srt_path(<<"a", "/", "x", ".", "m">>) THEN StaleSrt
        ELSE Absent]

Init ==
    /\ pc = "makedirs"
    /\ selected_videos = << >>
    /\ model = None
    /\ i = 0
    /\ audio_stream_index = None
    /\ audio_streams = 0
    /\ line = None
    /\ process = NoProcess
    /\ result = << >>
    /\ cue = 0
    /\ fs = InitialFiles
    /\ calls = NoCalls
    /\ removed = {}
    /\ exc = None
    /\ banner = FALSE
    /\ ts_in = 0
    /\ ts_out = None

video_path == selected_videos[i]

\* calls with field f of the current entry set to v
Called(f, v) == [calls EXCEPT ![f] = v]

Count(f) == [calls EXCEPT ![f] = @ + 1]

\* an exception nobody catches leaves main()
Propagate(e) ==
    /\ pc' = "exit"
    /\ exc' = Some(e)

\* the end of one loop iteration: the next entry, or the banner of line 175.
\* The stream index of the iteration is dead from here on (line 160 assigns
\* before any use), so it is forgotten.
NextVideo ==
    /\ i' = i + 1
    /\ audio_stream_index' = None
    /\ IF i + 1 <= Len(selected_videos)
       THEN pc' = "probe" /\ banner' = banner
       ELSE pc' = "exit" /\ banner' = TRUE

(* ------------------------------- main -------------------------------- *)
\* line 140: os.makedirs(OUTPUT_DIR, exist_ok=True)
MakeDirs ==
    /\ pc = "makedirs"
    /\ \/ pc' = "select_files" /\ exc' = exc
       \/ Propagate("OSError")
    /\ UNCHANGED <<selected_videos, model, i, audio_stream_index,
                   audio_streams, line, process, result, cue, fs, calls,
                   removed, banner, ts_in, ts_out>>

\* lines 142-145: the selection; an empty one ends the run
SelectFiles ==
    /\ pc = "select_files"
    /\ \E files \in Selections :
          /\ selected_videos' = files
          /\ pc' = IF files = << >> THEN "exit" ELSE "load_model"
    /\ UNCHANGED <<model, i, audio_stream_index, audio_streams, line,
                   process, result, cue, fs, calls, removed, exc, banner,
                   ts_in, ts_out>>

\* a slip: the handler of the failed load without its return
LoadModelWithoutReturn ==
    /\ pc = "load_model"
    /\ \/ /\ model' = Some(MODEL_SIZE)
          /\ i' = 1
          /\ pc' = "probe"
       \/ /\ model' = None
          /\ i' = 1
          /\ pc' = "probe"
    /\ UNCHANGED <<selected_videos, audio_stream_index, audio_streams, line,
                   process, result, cue, fs, calls, removed, exc, banner,
                   ts_in, ts_out>>

\* lines 147-153: the model is loaded, or the run ends; line 155 then
\* starts the loop at the first entry
LoadModel ==
    /\ pc = "load_model"
    /\ \/ /\ model' = Some(MODEL_SIZE)
          /\ i' = 1
          /\ pc' = "probe"
       \/ /\ pc' = "exit"
          /\ UNCHANGED <<model, i>>
    /\ UNCHANGED <<selected_videos, audio_stream_index, audio_streams, line,
                   process, result, cue, fs, calls, removed, exc, banner,
                   ts_in, ts_out>>

(* ------------------------ select_audio_stream ------------------------ *)
\* line 50: the audio streams of the probe's answer; a stream without
\* 'codec_type' raises KeyError, which is the answer None here
AudioStreams(streams) ==
    IF \E k \in 1..Len(streams) : streams[k] = NoKey THEN None
    ELSE Some(SelectSeq(streams, LAMBDA t : t = "audio"))

\* a slip: the test for no streams left out
AutoSelectFirst(n) == Some(0)

\* a slip: the only stream numbered from 1, as the prompt shows it
AutoSelectFromOne(n) == IF n = 0 THEN None ELSE Some(n)

\* a slip: the range test starting at 0
ValidChoiceFromZero(choice, n) == 0 <= choice /\ choice <= n

\* lines 52-58: without a prompt, no stream is "no stream" (None) and the
\* only stream is stream 0
AutoSelect(n) == IF n = 0 THEN None ELSE Some(0)

\* line 72: the test of the operator's choice against the n streams
ValidChoice(choice, n) == 1 <= choice /\ choice <= n

\* select_audio_stream returns r to line 160; lines 161-163 skip the entry
\* on None
ReturnSelection(r, c) ==
    /\ audio_streams' = 0
    /\ line' = None
    /\ exc' = exc
    /\ IF r = None
       THEN /\ NextVideo
            /\ calls' = [c EXCEPT !.selected = "None"]
       ELSE /\ pc' = "extract"
            /\ audio_stream_index' = r
            /\ calls' = [c EXCEPT !.selected = "index"]
            /\ UNCHANGED <<i, banner>>

\* lines 47-58 and 79-81: the probe and the cases without a prompt
Probe ==
    /\ pc = "probe"
    /\ \E o \in ProbeOutcomes :
          LET c == [NoCalls EXCEPT !.entry = i, !.probe = 1]
              a == AudioStreams(o.streams)
          IN  CASE o.kind = "OSError" ->
                     /\ Propagate("OSError")
                     /\ calls' = c
                     /\ UNCHANGED <<i, audio_stream_index, audio_streams,
                                    line, banner>>
                [] o.kind = "ffmpeg.Error" /\ ~o.utf8 ->
                     /\ Propagate("UnicodeDecodeError")
                     /\ calls' = c
                     /\ UNCHANGED <<i, audio_stream_index, audio_streams,
                                    line, banner>>
                [] o.kind = "ffmpeg.Error" /\ o.utf8 ->
                     ReturnSelection(None, c)
                [] o.kind = "ok" /\ a = None ->
                     /\ Propagate("KeyError")
                     /\ calls' = c
                     /\ UNCHANGED <<i, audio_stream_index, audio_streams,
                                    line, banner>>
                [] o.kind = "ok" /\ a # None /\ Len(a[1]) <= 1 ->
                     ReturnSelection(AutoSelect(Len(a[1])),
                                     [c EXCEPT !.found = Len(a[1])])
                [] OTHER ->
                     /\ audio_streams' = Len(a[1])
                     /\ pc' = "prompt"
                     /\ calls' = [c EXCEPT !.found = Len(a[1])]
                     /\ UNCHANGED <<i, audio_stream_index, line, exc,
                                    banner>>
    /\ UNCHANGED <<selected_videos, model, process, result, cue, fs, removed,
                   ts_in, ts_out>>

\* line 71: input() returns a line, or raises EOFError on a closed stdin
Prompt ==
    /\ pc = "prompt"
    /\ calls' = calls
    /\ \/ /\ \E l \in InputLines : line' = Some(l)
          /\ pc' = "prompt_check"
          /\ exc' = exc
       \/ /\ Propagate("EOFError")
          /\ line' = line
    /\ UNCHANGED <<selected_videos, model, i, audio_stream_index,
                   audio_streams, process, result, cue, fs, removed, banner,
                   ts_in, ts_out>>

\* lines 71-77: int() of the line, the range test, the return or the
\* message and the next turn of the loop
PromptCheck ==
    /\ pc = "prompt_check"
    /\ LET choice == PyInt(line[1])
       IN  IF choice # None /\ ValidChoice(choice[1], audio_streams)
           THEN ReturnSelection(Some(choice[1] - 1), calls)
           ELSE /\ pc' = "prompt"
                /\ line' = None
                /\ UNCHANGED <<i, audio_stream_index, audio_streams, calls,
                               exc, banner>>
    /\ UNCHANGED <<selected_videos, model, process, result, cue, fs, removed,
                   ts_in, ts_out>>

(* --------------------------- extract_audio --------------------------- *)
\* a slip: line 165 without its test, the transcription following any
\* extraction
ReturnExtractUntested(ok) ==
    /\ process' = NoProcess
    /\ exc' = exc
    /\ pc' = "transcribe"
    /\ calls' = Called("extracted", IF ok THEN "True" ELSE "False")
    /\ UNCHANGED <<i, audio_stream_index, banner>>

\* a slip: a failed extraction tried again
ReturnExtractRetrying(ok) ==
    /\ process' = NoProcess
    /\ exc' = exc
    /\ IF ok
       THEN /\ pc' = "transcribe"
            /\ calls' = Called("extracted", "True")
       ELSE /\ pc' = "extract"
            /\ calls' = calls
    /\ UNCHANGED <<i, audio_stream_index, banner>>

\* extract_audio returns ok to line 165: the transcription, or the end of
\* the iteration
ReturnExtract(ok) ==
    /\ process' = NoProcess
    /\ exc' = exc
    /\ IF ok
       THEN /\ pc' = "transcribe"
            /\ calls' = Called("extracted", "True")
            /\ UNCHANGED <<i, audio_stream_index, banner>>
       ELSE /\ NextVideo
            /\ calls' = Called("extracted", "False")

\* lines 86-94 and 114-116: the subprocess is started, or the setup raises
ExtractLaunch ==
    /\ pc = "extract"
    /\ \/ /\ process' = [state |-> "running", eof |-> FALSE,
                         returncode |-> None]
          /\ pc' = "readline"
          /\ calls' = Count("extract")
          /\ UNCHANGED <<i, audio_stream_index, exc, banner>>
       \/ /\ process' = NoProcess
          /\ exc' = exc
          /\ NextVideo
          /\ calls' = [Count("extract") EXCEPT !.extracted = "False"]
    /\ UNCHANGED <<selected_videos, model, audio_streams, line, result, cue,
                   fs, removed, ts_in, ts_out>>

\* lines 96-102 and 114-116: one readline() of the status stream: a line,
\* the end of the stream, or an exception while the line is shown
ExtractReadLine ==
    /\ pc = "readline"
    /\ \/ UNCHANGED <<pc, process, calls, i, audio_stream_index, exc, banner>>
       \/ /\ process' = [process EXCEPT !.eof = TRUE]
          /\ pc' = "wait"
          /\ UNCHANGED <<calls, i, audio_stream_index, exc, banner>>
       \/ /\ process' = process
          /\ exc' = exc
          /\ NextVideo
          /\ calls' = Called("extracted", "False")
    /\ UNCHANGED <<selected_videos, model, audio_streams, line, result, cue,
                   fs, removed, ts_in, ts_out>>

\* what the extraction subprocess leaves at its output path when it exits
\* with returncode: the waveform of the video on 0 (its samples are not
\* modelled, the file records its source); otherwise nothing new, or a part
Extracted(returncode) ==
    LET p == temp_audio_path(video_path)
        d == <<video_path>>
    IN  IF returncode = 0
        THEN {[fs EXCEPT ![p] = File(i, "wav", d, TRUE)]}
        ELSE {fs, [fs EXCEPT ![p] = File(i, "wav", << >>, FALSE)]}

\* line 104: process.wait()
ExtractWait ==
    /\ pc = "wait"
    /\ \E rc \in ReturnCodes :
          /\ process' = [process EXCEPT !.state = "exited",
                                        !.returncode = Some(rc)]
          /\ fs' \in Extracted(rc)
    /\ pc' = "returncode"
    /\ UNCHANGED <<selected_videos, model, i, audio_stream_index,
                   audio_streams, line, result, cue, calls, removed, exc,
                   banner, ts_in, ts_out>>

\* a slip: success for any exit code
ExtractReturnIgnoringCode ==
    /\ pc = "returncode"
    /\ ReturnExtract(process.returncode # None)
    /\ UNCHANGED <<selected_videos, model, audio_streams, line, result, cue,
                   fs, removed, ts_in, ts_out>>

\* lines 107-112: the result is the test of the exit code
ExtractReturn ==
    /\ pc = "returncode"
    /\ ReturnExtract(process.returncode = Some(0))
    /\ UNCHANGED <<selected_videos, model, audio_streams, line, result, cue,
                   fs, removed, ts_in, ts_out>>

(* ---------------------- transcribe_and_save_srt ---------------------- *)
\* a slip: the deletion inside the try block, skipped by the exception
CatchTranscriptionSkippingCleanup(e, c) ==
    /\ calls' = [c EXCEPT !.raised = e]
    /\ result' = << >>
    /\ cue' = 0
    /\ NextVideo

\* lines 135-136: the exception e is caught and reported, and the function
\* returns to line 168
CatchTranscription(e, c) ==
    /\ calls' = [c EXCEPT !.raised = e]
    /\ result' = << >>
    /\ cue' = 0
    /\ pc' = "remove"
    /\ UNCHANGED <<i, audio_stream_index, banner>>

\* a slip: the subtitle opened before the model is called
TranscribeAfterOpen ==
    /\ pc = "transcribe"
    /\ fs' = [fs EXCEPT ![output_srt_path(video_path)] =
                 File(i, "srt", << >>, FALSE)]
    /\ \/ CatchTranscription("transcribe", Count("transcribe"))
       \/ /\ \E r \in ModelResults : result' = r
          /\ calls' = Count("transcribe")
          /\ cue' = 0
          /\ pc' = "open"
          /\ UNCHANGED <<i, audio_stream_index, banner>>
    /\ UNCHANGED <<selected_videos, model, audio_streams, line, process,
                   removed, exc, ts_in, ts_out>>

\* lines 122-123: the model call raises, or returns its segments
Transcribe ==
    /\ pc = "transcribe"
    /\ \/ CatchTranscription("transcribe", Count("transcribe"))
       \/ /\ \E r \in ModelResults : result' = r
          /\ calls' = Count("transcribe")
          /\ cue' = 0
          /\ pc' = "open"
          /\ UNCHANGED <<i, audio_stream_index, banner>>
    /\ UNCHANGED <<selected_videos, model, audio_streams, line, process, fs,
                   removed, exc, ts_in, ts_out>>

\* line 125: open(output_srt_path, "w") raises and leaves the path alone, or
\* leaves an empty file there; without segments lines 126-133 close it
SrtOpen ==
    /\ pc = "open"
    /\ \/ /\ CatchTranscription("open", Count("open"))
          /\ fs' = fs
       \/ /\ fs' = [fs EXCEPT ![output_srt_path(video_path)] =
                        File(i, "srt", << >>, result = << >>)]
          /\ calls' = Count("open")
          /\ UNCHANGED <<i, audio_stream_index, banner>>
          /\ IF result = << >>
             THEN /\ pc' = "remove"
                  /\ UNCHANGED <<result, cue>>
             ELSE /\ pc' = "write"
                  /\ cue' = 1
                  /\ result' = result
    /\ UNCHANGED <<selected_videos, model, audio_streams, line, process,
                   removed, exc, ts_in, ts_out>>

\* a slip: the text written as the model gave it, without strip()
CueWritesUntrimmed(n, segment) ==
    << Decimal(n) \o <<"\n">>,
       format_srt_timestamp(segment.start) \o <<" ", "-", "-", ">", " ">>
           \o format_srt_timestamp(segment.end) \o <<"\n">>,
       segment.text \o <<"\n", "\n">> >>

\* the three strings lines 127-131 write for cue number n of segment
CueWrites(n, segment) ==
    << Decimal(n) \o <<"\n">>,
       format_srt_timestamp(segment.start) \o <<" ", "-", "-", ">", " ">>
           \o format_srt_timestamp(segment.end) \o <<"\n">>,
       Strip(segment.text) \o <<"\n", "\n">> >>

\* how many of the three writes of a cue are done when it raises: the
\* assertion of the formatter raises between the first and the second
WritesBeforeAssertion == 1

\* lines 126-133: one turn of the loop over the segments.  Each write may
\* raise OSError (failed = which one, 0 for none); a negative time raises
\* AssertionError.  The file keeps what was written before the exception.
SrtWriteCue ==
    /\ pc = "write"
    /\ \E failed \in 0..3 :
          LET p       == output_srt_path(video_path)
              segment == result[cue]
              w       == CueWrites(cue, segment)
              asserts == segment.start < 0 \/ segment.end < 0
              done    == IF failed = 1 THEN 0
                         ELSE IF asserts THEN WritesBeforeAssertion
                         ELSE IF failed = 0 THEN 3 ELSE failed - 1
              raised  == IF failed = 1 THEN "OSError"
                         ELSE IF asserts THEN "AssertionError"
                         ELSE IF failed = 0 THEN "no" ELSE "OSError"
              last    == cue = Len(result)
          IN  /\ fs' = [fs EXCEPT ![p] =
                           File(i, "srt", fs[p].data \o SubSeq(w, 1, done),
                                raised = "no" /\ last)]
              /\ IF raised # "no" THEN CatchTranscription(raised, calls)
                 ELSE IF last
                 THEN /\ pc' = "remove"
                      /\ UNCHANGED <<result, cue, calls, i,
                                     audio_stream_index, banner>>
                 ELSE /\ cue' = cue + 1
                      /\ UNCHANGED <<pc, result, calls, i,
                                     audio_stream_index, banner>>
    /\ UNCHANGED <<selected_videos, model, audio_streams, line, process,
                   removed, exc, ts_in, ts_out>>

(* ------------------------------ cleanup ------------------------------ *)
\* lines 168-173: os.remove(temp_audio_path) removes the file, or raises
\* OSError, which is reported; then the iteration ends
Remove ==
    /\ pc = "remove"
    /\ LET p == temp_audio_path(video_path)
       IN  \/ /\ fs[p] # Absent
              /\ fs' = [fs EXCEPT ![p] = Absent]
              /\ calls' = [Count("remove") EXCEPT !.removed = "ok"]
              /\ removed' = removed \cup {i}
           \/ /\ fs' = fs
              /\ calls' = [Count("remove") EXCEPT !.removed = "OSError"]
              /\ removed' = removed
    /\ NextVideo
    /\ UNCHANGED <<selected_videos, model, audio_streams, line, process,
                   result, cue, exc, ts_in, ts_out>>

(* --------------------------- the whole run --------------------------- *)
Next ==
    \/ MakeDirs
    \/ SelectFiles
    \/ LoadModel
    \/ Probe
    \/ Prompt
    \/ PromptCheck
    \/ ExtractLaunch
    \/ ExtractReadLine
    \/ ExtractWait
    \/ ExtractReturn
    \/ Transcribe
    \/ SrtOpen
    \/ SrtWriteCue
    \/ Remove

Spec == Init /\ [][Next]_vars

(* ---------------------- the formatter on its own --------------------- *)
\* arguments of format_srt_timestamp, in half milliseconds: every hour up to
\* MaxHours with the ends of the minute, second and millisecond ranges, on
\* and between whole milliseconds, and three negative ones
TimestampInputs ==
    { 2 * (3600000 * h + 60000 * m + 1000 * sec + ms) + half :
        h \in 0..MaxHours, m \in {0, 1, 59}, sec \in {0, 59},
        ms \in {0, 1, 500, 999}, half \in {0, 1} }
    \cup {-1, -2, -7200001}

InitTimestamp ==
    /\ pc = "format"
    /\ selected_videos = << >>
    /\ model = None
    /\ i = 0
    /\ audio_stream_index = None
    /\ audio_streams = 0
    /\ line = None
    /\ process = NoProcess
    /\ result = << >>
    /\ cue = 0
    /\ fs = InitialFiles
    /\ calls = NoCalls
    /\ removed = {}
    /\ exc = None
    /\ banner = FALSE
    /\ ts_in \in TimestampInputs
    /\ ts_out = None

\* one call format_srt_timestamp(ts_in)
FormatTimestamp ==
    /\ pc = "format"
    /\ pc' = "formatted"
    /\ ts_out' = format_srt_timestamp(ts_in)
    /\ UNCHANGED <<selected_videos, model, i, audio_stream_index,
                   audio_streams, line, process, result, cue, fs, calls,
                   removed, exc, banner, ts_in>>

SpecTimestamp == InitTimestamp /\ [][FormatTimestamp]_vars

(* ====================== the claims of the spec ======================= *)
SelectPcs     == {"probe", "prompt", "prompt_check"}
ExtractPcs    == {"extract", "readline", "wait", "returncode"}
TranscribePcs == {"transcribe", "open", "write"}
CleanupPcs    == {"remove"}

\* the stage of the entry the loop is at
Stage ==
    CASE pc \in SelectPcs     -> "SELECT_STREAM"
      [] pc \in ExtractPcs    -> "EXTRACT"
      [] pc \in TranscribePcs -> "TRANSCRIBE"
      [] pc \in CleanupPcs    -> "CLEANUP"
      [] OTHER                -> "NONE"

\* calls describes an entry of the list
Described == calls.entry \in 1..Len(selected_videos)

\* the file at the subtitle path, at the waveform path, of the described entry
SrtOfEntry == fs[output_srt_path(selected_videos[calls.entry])]
WavOfEntry == fs[temp_audio_path(selected_videos[calls.entry])]

\* the iteration of the described entry is over: the loop is at the next
\* entry's probe, or main() has returned after the last entry
IterationOver ==
    /\ i = calls.entry + 1
    /\ exc = None
    /\ \/ pc = "probe" /\ i <= Len(selected_videos)
       \/ pc = "exit" /\ banner /\ i = Len(selected_videos) + 1

(* C1: a subtitle file is at an entry's output path by that entry's        *)
(* iteration only if its extraction returned success and its transcription *)
(* stage did not raise; once the stage has raised, the iteration has left  *)
(* no subtitle file, not even an empty or partial one.                     *)
C1_NoSubtitleAfterRaise ==
    Described /\ SrtOfEntry.kind = "srt" /\ SrtOfEntry.by = calls.entry
        => calls.extracted = "True" /\ calls.raised = "no"

(* C2: when the extraction of an entry returns failure (a non-zero exit    *)
(* code of the subprocess included), the transcription is never invoked    *)
(* for that entry and its iteration creates no subtitle file.              *)
C2_FailedExtractionSkipsTranscription ==
    /\ [](Described /\ calls.extracted = "False" =>
            /\ calls.transcribe = 0
            /\ calls.open = 0
            /\ SrtOfEntry.by # calls.entry
            /\ IterationOver)
    /\ [][pc = "returncode" /\ process.returncode # Some(0) =>
            calls'.extracted = "False"]_vars

C2_Witness ==
    /\ Described
    /\ calls.extracted = "False"
    /\ calls.extract = 1
    /\ WavOfEntry.by = calls.entry
    /\ ~WavOfEntry.complete
    /\ pc = "probe"

(* C3, as stated: the stages of an entry come in the order SELECT_STREAM,  *)
(* EXTRACT, TRANSCRIBE, CLEANUP, and a failure of any stage (no stream,    *)
(* failed extraction, raising transcription) ends the iteration at once.   *)
StageOrder ==
    \/ pc' = pc
    \/ /\ i' = i
       /\ <<Stage, Stage'>> \in
             { <<"SELECT_STREAM", "SELECT_STREAM">>,
               <<"SELECT_STREAM", "EXTRACT">>,
               <<"EXTRACT", "EXTRACT">>,
               <<"EXTRACT", "TRANSCRIBE">>,
               <<"TRANSCRIBE", "TRANSCRIBE">>,
               <<"TRANSCRIBE", "CLEANUP">> }
    \/ /\ i' = i + 1
       /\ pc' = "probe" \/ (pc' = "exit" /\ banner' /\ i' > Len(selected_videos))
    \/ pc' = "exit" /\ i' = i
    \/ pc \in {"makedirs", "select_files"} /\ i' = i

SelectionFailed  == pc \in SelectPcs /\ calls'.selected = "None"
ExtractionFailed == pc \in ExtractPcs /\ calls'.extracted = "False"
TranscriptionRaised ==
    pc \in TranscribePcs /\ calls.raised = "no" /\ calls'.raised # "no"

C3_AnyFailureEndsIteration ==
    [][/\ StageOrder
       /\ SelectionFailed \/ ExtractionFailed \/ TranscriptionRaised
            => i' = i + 1 /\ Stage' \in {"SELECT_STREAM", "NONE"}]_vars

(* C3, amended: the stages of an entry come in the order SELECT_STREAM,    *)
(* EXTRACT, TRANSCRIBE, CLEANUP; "no stream" and a failed extraction end   *)
(* the iteration at once, while a transcription that raises is followed by *)
(* CLEANUP, which ends the iteration; the loop then is at the next entry.  *)
C3_FailureEndsIterationExceptCleanup ==
    [][/\ StageOrder
       /\ SelectionFailed \/ ExtractionFailed
            => i' = i + 1 /\ Stage' \in {"SELECT_STREAM", "NONE"}
       /\ TranscriptionRaised => i' = i /\ Stage' = "CLEANUP"
       /\ Stage = "CLEANUP"
            => i' = i + 1 /\ Stage' \in {"SELECT_STREAM", "NONE"}]_vars

C3_Witness ==
    /\ Described
    /\ calls.raised # "no"
    /\ calls.remove = 1
    /\ IterationOver
    /\ pc = "probe"

(* C4: no failure of a stage of one entry leaves main()'s loop: no         *)
(* exception propagates once the loop has started.                         *)
C4_NothingPropagates == i >= 1 => exc = None

(* C5: for a video without audio streams select_audio_stream returns None, *)
(* neither extraction nor transcription nor deletion is invoked for it,    *)
(* and the loop continues with the next entry.                             *)
C5_NoStreamSkipsEntry ==
    Described /\ calls.found = 0 =>
        /\ calls.selected = "None"
        /\ calls.extract = 0
        /\ calls.transcribe = 0
        /\ calls.open = 0
        /\ calls.remove = 0
        /\ IterationOver

C5_Witness ==
    /\ Described
    /\ calls.found = 0
    /\ calls.probe = 1
    /\ pc = "probe"
    /\ i = 2

(* C6: with an empty selection, or when the model fails to load, no stage  *)
(* of any entry is entered; the model is loaded at most once, after a      *)
(* non-empty selection and before the first entry's SELECT_STREAM.         *)
C6_AbortBeforeTheLoop ==
    /\ [](selected_videos = << >> \/ model = None =>
            /\ i = 0
            /\ Stage = "NONE"
            /\ calls = NoCalls
            /\ removed = {}
            /\ fs = InitialFiles)
    /\ [][/\ model' # model =>
               /\ model = None
               /\ pc = "load_model"
               /\ selected_videos # << >>
               /\ i = 0 /\ i' = 1 /\ pc' = "probe"
          /\ pc' = "load_model" /\ pc # "load_model" => pc = "select_files"
          /\ pc' = "select_files" /\ pc # "select_files" => pc = "makedirs"
          /\ pc = "select_files" /\ selected_videos' = << >> => pc' = "exit"
          /\ pc = "load_model" /\ model' = None => pc' = "exit"
          /\ pc = "exit" => pc' = "exit"]_vars

C6_Witness ==
    /\ pc = "exit"
    /\ selected_videos # << >>
    /\ model = None
    /\ exc = None
    /\ ~banner

(* C7: for an entry whose extraction succeeded exactly one deletion of its *)
(* waveform is attempted, after its transcription returned and before the  *)
(* next entry's SELECT_STREAM, and when the deletion succeeded the         *)
(* waveform path of the entry holds no file when the run completes.        *)
C7_DeletedWaveformAbsentAtCompletion ==
    /\ Described /\ calls.extracted = "True" /\ i > calls.entry =>
          calls.remove = 1 /\ calls.transcribe = 1
    /\ Described /\ calls.remove > 0 =>
          calls.remove = 1 /\ calls.extracted = "True"
    /\ pc = "exit" /\ banner =>
          \A j \in removed : fs[temp_audio_path(selected_videos[j])] = Absent

(* C8: every selected video has its own waveform and its own subtitle: no  *)
(* file written for one entry of the list is overwritten for another       *)
(* entry in the same run.                                                  *)
C8_ArtifactsNeverOverwritten ==
    [][\A p \in Paths :
          fs[p].by >= 1 /\ fs'[p] # Absent => fs'[p].by = fs[p].by]_vars

(* C9: with n >= 2 audio streams the prompt is repeated after every line   *)
(* that is not the numeral of an integer in 1..n, and the first line that  *)
(* is the numeral of such a c makes select_audio_stream return c - 1, an   *)
(* index in 0..n-1; the prompt loop never returns None.                    *)
RECURSIVE Spaces(_)
Spaces(k) == IF k <= 0 THEN << >> ELSE <<" ">> \o Spaces(k - 1)

\* line l is a numeral of the positive integer c: blanks, an optional plus
\* sign, leading zeros, the digits of c, blanks
Reads(l, c) ==
    \E before \in 0..Len(l), sign \in {<< >>, <<"+">>} :
        \E after \in 0..(Len(l) - before) :
            LET zeros == Len(l) - before - Len(sign) - Len(Decimal(c)) - after
            IN  /\ zeros >= 0
                /\ l = Spaces(before) \o sign \o Zeros(zeros) \o Decimal(c)
                          \o Spaces(after)

C9_PromptUntilValidChoice ==
    /\ [](pc \in {"prompt", "prompt_check"} =>
            audio_streams >= 2 /\ audio_streams = calls.found)
    /\ [](pc \in ExtractPcs /\ calls.found >= 2 =>
            /\ audio_stream_index # None
            /\ audio_stream_index[1] \in 0..(calls.found - 1))
    /\ [][/\ pc = "prompt" =>
               \/ pc' = "prompt_check"
               \/ pc' = "exit" /\ exc' = Some("EOFError")
          /\ pc = "prompt_check" =>
               LET valid == {c \in 1..audio_streams : Reads(line[1], c)}
               IN  IF valid # {}
                   THEN /\ pc' = "extract"
                        /\ \E c \in valid : audio_stream_index' = Some(c - 1)
                   ELSE /\ pc' = "prompt"
                        /\ calls'.selected = "unset"]_vars

C9_Witness ==
    /\ pc = "extract"
    /\ calls.found >= 2
    /\ audio_stream_index = Some(1)

(* C10: the value of format_srt_timestamp for seconds >= 0.                *)
FirstIndexOf(s, c) ==
    IF \E k \in 1..Len(s) : s[k] = c
    THEN CHOOSE k \in 1..Len(s) : s[k] = c /\ \A m \in 1..(k - 1) : s[m] # c
    ELSE 0

AllDigits(s) == s # << >> /\ \A k \in 1..Len(s) : IsDigit(s[k])

\* DD:DD:DD,DDD
FixedShape(s) ==
    /\ Len(s) = 12
    /\ s[3] = ":" /\ s[6] = ":" /\ s[9] = ","
    /\ \A k \in {1, 2, 4, 5, 7, 8, 10, 11, 12} : IsDigit(s[k])

\* the fields of a string hours:DD:DD,DDD, hours being all before the
\* first colon
ParsedFields(s) ==
    LET c == FirstIndexOf(s, ":")
    IN  [hours   |-> SubSeq(s, 1, c - 1),
         minutes |-> SubSeq(s, c + 1, c + 2),
         seconds |-> SubSeq(s, c + 4, c + 5),
         millis  |-> SubSeq(s, c + 7, c + 9)]

\* hours:DD:DD,DDD with at least two digits of hours
WideShape(s) ==
    LET c == FirstIndexOf(s, ":")
        f == ParsedFields(s)
    IN  /\ c >= 3
        /\ Len(s) = c + 9
        /\ s[c + 3] = ":" /\ s[c + 6] = ","
        /\ AllDigits(f.hours) /\ AllDigits(f.minutes)
        /\ AllDigits(f.seconds) /\ AllDigits(f.millis)

ParsedMilliseconds(s) ==
    LET f == ParsedFields(s)
    IN  DigitsValue(f.hours) * 3600000 + DigitsValue(f.minutes) * 60000
        + DigitsValue(f.seconds) * 1000 + DigitsValue(f.millis)

FieldsInRange(s) ==
    LET f == ParsedFields(s)
    IN  /\ DigitsValue(f.minutes) \in 0..59
        /\ DigitsValue(f.seconds) \in 0..59
        /\ DigitsValue(f.millis) \in 0..999

\* C10, as stated: for every seconds >= 0 the value has exactly the shape
\* DD:DD:DD,DDD, minutes and seconds are in 0..59, milliseconds in 0..999,
\* and parsing it back gives the rounded total of milliseconds.
C10_AlwaysTwoDigitHours ==
    pc = "formatted" /\ ts_in >= 0 =>
        /\ FixedShape(ts_out)
        /\ FieldsInRange(ts_out)
        /\ ParsedMilliseconds(ts_out) = PyRound(ts_in)

\* C10, amended: for every seconds >= 0 the value has the shape
\* H..H:DD:DD,DDD with at least two digits of hours, and exactly the shape
\* DD:DD:DD,DDD when the rounded total is below 100 hours; minutes and
\* seconds are in 0..59, milliseconds in 0..999, and parsing it back gives
\* the rounded total of milliseconds.
C10_TwoDigitHoursBelow100 ==
    pc = "formatted" /\ ts_in >= 0 =>
        /\ WideShape(ts_out)
        /\ PyRound(ts_in) < 100 * 3600000 => FixedShape(ts_out)
        /\ FieldsInRange(ts_out)
        /\ ParsedMilliseconds(ts_out) = PyRound(ts_in)

C10_Witness ==
    /\ pc = "formatted"
    /\ ts_in >= 0
    /\ PyRound(ts_in) >= 100 * 3600000
    /\ Len(ts_out) = 13

(* C11: for every seconds < 0, those that round to 0 ms included,          *)
(* format_srt_timestamp fails with an error and gives no timestamp string: *)
(* a negative input is neither clamped nor formatted.                      *)
C11_NegativeSecondsRejected ==
    pc = "formatted" /\ ts_in < 0 =>
        /\ ts_out = AssertionError
        /\ ~WideShape(ts_out)

C11_Witness ==
    /\ pc = "formatted"
    /\ ts_in = -1
    /\ PyRound(ts_in) = 0
    /\ ts_out = AssertionError

(* C12: the videos are processed one at a time in the order of the list:   *)
(* whatever a stage of one entry started, its extraction subprocess        *)
(* included, is over before a stage of the next entry begins, so a stage   *)
(* in progress belongs to the entry the loop is at and a running           *)
(* subprocess is the one that entry's extraction is reading or awaiting.   *)
C12_OneVideoAtATime ==
    /\ Stage # "NONE" => i \in 1..Len(selected_videos)
    /\ Stage \notin {"NONE", "SELECT_STREAM"} => Described /\ calls.entry = i
    /\ process.state = "running" /\ Stage # "NONE" =>
          pc \in {"readline", "wait"} /\ calls.entry = i

(* C13: extract_audio returns success exactly when the subprocess was      *)
(* launched, its status stream was read to its end, the process was then   *)
(* waited for and its exit code is 0; a non-zero exit code and an          *)
(* exception during setup or streaming give failure and nothing is raised. *)
(* The wait comes after the end of the status stream, and the exit code is *)
(* tested only after the wait.                                             *)
ExtractReturns == calls.extracted = "unset" /\ calls'.extracted # "unset"

C14_NothingRetried ==
    /\ [](/\ calls.probe <= 1
          /\ calls.extract <= 1
          /\ calls.transcribe <= 1
          /\ calls.open <= 1
          /\ calls.remove <= 1)
    /\ [][/\ i' \in {i, i + 1}
          /\ calls'.entry # calls.entry =>
                pc = "probe" /\ calls'.entry = calls.entry + 1
          /\ pc = "probe" => calls'.entry = i /\ calls.entry = i - 1
          /\ pc' = "prompt" => pc \in {"probe", "prompt_check"}]_vars

C14_Witness ==
    /\ Described
    /\ calls.probe = 1
    /\ calls.extract = 1
    /\ calls.transcribe = 1
    /\ calls.raised = "transcribe"
    /\ calls.remove = 1
    /\ calls.removed = "OSError"
    /\ IterationOver

(* C15: for a video with exactly one audio stream select_audio_stream      *)
(* returns index 0 and reads no input: the operator is not prompted.       *)
C15_SingleStreamWithoutPrompt ==
    /\ [](Described /\ calls.found = 1 =>
            /\ calls.selected = "index"
            /\ pc \notin {"prompt", "prompt_check"}
            /\ line = None
            /\ i = calls.entry => audio_stream_index = Some(0))
    /\ [][pc = "probe" /\ calls'.found = 1 =>
            /\ pc' = "extract"
            /\ audio_stream_index' = Some(0)
            /\ line' = None]_vars

C15_Witness ==
    /\ pc = "extract"
    /\ calls.found = 1
    /\ calls.selected = "index"
    /\ audio_stream_index = Some(0)
    /\ line = None

(* C16: when the transcription stage succeeds with k segments the subtitle *)
(* file holds exactly k cues in the order of the segments, numbered 1..k,  *)
(* the j-th with the formatted start and end of the j-th segment and its   *)
(* text without the surrounding blanks; none is skipped, doubled or moved. *)
\* t is text without its leading and trailing blanks
TrimmedOf(text, t) ==
    /\ t = << >> \/ (t[1] # " " /\ t[Len(t)] # " ")
    /\ \E a, b \in 0..Len(text) : text = Spaces(a) \o t \o Spaces(b)

\* the lines number, times, text of one cue, as the file holds them
IsCueOf(number, times, text, j, segment) ==
    /\ number = Decimal(j) \o <<"\n">>
    /\ WideShape(format_srt_timestamp(segment.start))
    /\ WideShape(format_srt_timestamp(segment.end))
    /\ times = format_srt_timestamp(segment.start)
                  \o <<" ", "-", "-", ">", " ">>
                  \o format_srt_timestamp(segment.end) \o <<"\n">>
    /\ Len(text) >= 2
    /\ SubSeq(text, Len(text) - 1, Len(text)) = <<"\n", "\n">>
    /\ TrimmedOf(segment.text, SubSeq(text, 1, Len(text) - 2))

C16_OneCuePerSegmentInOrder ==
    pc = "remove" /\ calls.raised = "no" =>
        LET f == SrtOfEntry
            k == Len(result)
        IN  /\ calls.transcribe = 1 /\ calls.open = 1
            /\ f.kind = "srt" /\ f.by = calls.entry /\ f.complete
            /\ Len(f.data) = 3 * k
            /\ \A j \in 1..k :
                  IsCueOf(f.data[3 * j - 2], f.data[3 * j - 1], f.data[3 * j],
                          j, result[j])

C16_Witness ==
    /\ pc = "remove"
    /\ calls.raised = "no"
    /\ Len(result) = 2
    /\ SrtOfEntry.complete
    /\ Len(SrtOfEntry.data) = 6
    /\ SrtOfEntry.data[6] = <<"b", "\n", "\n">>

(* C17: when every external call returns and the operator answers every    *)
(* prompt, a run with a non-empty selection and a loaded model prints the  *)
(* completion banner, and prints it only after every selected video is     *)
(* done: such a run does not end without the banner.  A closed stdin       *)
(* (EOFError) and a probe that cannot be started (OSError) are outside     *)
(* the assumption.                                                         *)
C17_RunEndsWithBanner ==
    /\ banner => pc = "exit" /\ i = Len(selected_videos) + 1
    /\ /\ pc = "exit"
       /\ selected_videos # << >>
       /\ model # None
       /\ exc \notin {Some("EOFError"), Some("OSError")}
       => banner

(* C18: the subtitle path is opened (and truncated) only after the model   *)
(* call has returned: when the model call raises, the file at the subtitle *)
(* path stays exactly as it was, neither created nor truncated nor         *)
(* changed, and open() is not called.                                      *)
C18_RaisingModelCallLeavesSubtitle ==
    /\ [][pc = "transcribe" =>
            /\ fs' = fs
            /\ calls'.transcribe = 1
            /\ calls'.open = 0
            /\ calls'.raised = "transcribe" <=> pc' # "open"]_vars
    /\ [][\A v \in Videos :
            fs'[output_srt_path(v)] # fs[output_srt_path(v)] =>
                /\ pc \in {"open", "write"}
                /\ v \in {w \in Videos :
                            output_srt_path(w) = output_srt_path(video_path)}
                /\ calls.transcribe = 1
                /\ calls.raised = "no"]_vars
    /\ [](Described /\ calls.raised = "transcribe" => calls.open = 0)

C18_Witness ==
    /\ pc = "remove"
    /\ calls.transcribe = 1
    /\ calls.raised = "transcribe"
    /\ calls.open = 0
    /\ SrtOfEntry = StaleSrt

(* C19: the deletion of an entry's waveform is attempted exactly when its  *)
(* extraction returned success; after a failed extraction nothing is       *)
(* cleaned up, so the part the extractor left at the waveform path stays   *)
(* there, unchanged, until the run completes.                              *)
C19_CleanupIffExtracted ==
    /\ [](Described /\ calls.remove > 0 => calls.extracted = "True")
    /\ [](Described /\ i > calls.entry /\ calls.extracted = "True" =>
            calls.remove = 1)
    /\ [][\A p \in Paths :
            fs[p].kind = "wav" /\ ~fs[p].complete => fs'[p] = fs[p]]_vars

====
